---------------------------- MODULE Spec2Model ----------------------------
(***************************************************************************)
(* Model of ai_art/params.py (resolve_model_repo, TextToImageParams and    *)
(* TextGuidedImageToImageParams.from_config) and ai_art/image.py           *)
(* (open_base_image, resize_image).                                        *)
(*                                                                         *)
(* Three specifications share the variables:                               *)
(*   Spec        one call of from_config and the life of what it returns   *)
(*   SpecResize  resize_image applied twice to an image                    *)
(*   SpecResolve one call of resolve_model_repo                            *)
(***************************************************************************)
EXTENDS Integers, Sequences, FiniteSets, TLC

VARIABLES
    pc,             \* position of the running call
    recipe_config,  \* the mapping handed to the call (never assigned)
    variant,        \* class from_config is called on
    folders,        \* the dataiku.Folder collaborators, as their behaviour
    kwargs,         \* the locals and the kwargs dict under construction
    record,         \* the dataclass instance returned, or NoRecord
    exc,            \* the exception that left the call, or NoExc
    tempdir,        \* the tempfile.TemporaryDirectory of the weights
    heap,           \* PIL images by object identity
    trace,          \* the steps that ran, in order
    url             \* result of resolve_model_repo, or <<>> before it returns

vars == <<pc, recipe_config, variant, folders, kwargs, record, exc, tempdir,
          heap, trace, url>>

(***************************************************************************)
(* Bounds of the model.                                                    *)
(***************************************************************************)
MaxDim == 4       \* image sides 1..MaxDim, besides the named sizes
MaxMinSize == 3   \* min_size 1..MaxMinSize, besides the named sizes
MaxInt == 2       \* configured integers -MaxInt..MaxInt, besides the named
MaxUses == 2      \* times the caller reads a returned record

(***************************************************************************)
(* Python values.  t is the type, n the number (a float holds its value in *)
(* tenths), s the characters of a str.                                     *)
(***************************************************************************)
PyNone == [t |-> "none", n |-> 0, s |-> <<>>]
Missing == [t |-> "missing", n |-> 0, s |-> <<>>]
PyI(i) == [t |-> "int", n |-> i, s |-> <<>>]
PyF(tenths) == [t |-> "float", n |-> tenths, s |-> <<>>]
PyB(b) == [t |-> "bool", n |-> IF b THEN 1 ELSE 0, s |-> <<>>]
PyS(chars) == [t |-> "str", n |-> 0, s |-> chars]

NoExc == "none"

\* bool(v)
Truthy(v) ==
    CASE v.t = "none" -> FALSE
      [] v.t = "missing" -> FALSE
      [] v.t = "str" -> v.s /= <<>>
      [] OTHER -> v.n /= 0

Digits == {"0", "1", "2", "3", "4", "5", "6", "7", "8", "9"}

DigitVal(c) ==
    CASE c = "0" -> 0 [] c = "1" -> 1 [] c = "2" -> 2 [] c = "3" -> 3
      [] c = "4" -> 4 [] c = "5" -> 5 [] c = "6" -> 6 [] c = "7" -> 7
      [] c = "8" -> 8 [] c = "9" -> 9

RECURSIVE StripLeft(_)
StripLeft(cs) ==
    IF cs /= <<>> /\ Head(cs) = " " THEN StripLeft(Tail(cs)) ELSE cs

RECURSIVE StripRight(_)
StripRight(cs) ==
    IF cs /= <<>> /\ cs[Len(cs)] = " "
    THEN StripRight(SubSeq(cs, 1, Len(cs) - 1))
    ELSE cs

RECURSIVE DecimalValue(_, _)
DecimalValue(cs, acc) ==
    IF cs = <<>> THEN acc
    ELSE DecimalValue(Tail(cs), 10 * acc + DigitVal(Head(cs)))

\* int(str): surrounding blanks dropped, an optional sign, then digits only
ParseInt(chars) ==
    LET body == StripRight(StripLeft(chars))
        signed == body /= <<>> /\ Head(body) \in {"+", "-"}
        digits == IF signed THEN Tail(body) ELSE body
        wellFormed == digits /= <<>> /\ \A i \in 1..Len(digits) : digits[i] \in Digits
        magnitude == IF wellFormed THEN DecimalValue(digits, 0) ELSE 0
    IN  IF ~wellFormed THEN [exc |-> "ValueError", n |-> 0]
        ELSE [exc |-> NoExc,
              n |-> IF signed /\ Head(body) = "-" THEN -magnitude ELSE magnitude]

\* int(v)
PyInt(v) ==
    CASE v.t = "int" -> [exc |-> NoExc, n |-> v.n]
      [] v.t = "bool" -> [exc |-> NoExc, n |-> v.n]
      [] v.t = "float" ->
            [exc |-> NoExc,
             n |-> IF v.n >= 0 THEN v.n \div 10 ELSE -((-v.n) \div 10)]
      [] v.t = "str" -> ParseInt(v.s)
      [] OTHER -> [exc |-> "TypeError", n |-> 0]

(***************************************************************************)
(* IEEE-754 binary64 arithmetic of the expression                          *)
(*     round(current_larger_size / current_base_size * min_size)           *)
(* A positive float is m * 2^e with m a sequence of MantissaBits bits,     *)
(* most significant first.                                                 *)
(***************************************************************************)
MantissaBits == 53

RECURSIVE Bits(_)
Bits(n) == IF n = 0 THEN <<>> ELSE Append(Bits(n \div 2), n % 2)

RECURSIVE BitsToInt(_)
BitsToInt(bs) ==
    IF bs = <<>> THEN 0
    ELSE 2 * BitsToInt(SubSeq(bs, 1, Len(bs) - 1)) + bs[Len(bs)]

\* bs + 1
IncBits(bs) ==
    IF \A i \in 1..Len(bs) : bs[i] = 1
    THEN <<1>> \o [i \in 1..Len(bs) |-> 0]
    ELSE LET z == CHOOSE i \in 1..Len(bs) :
                      bs[i] = 0 /\ \A k \in (i + 1)..Len(bs) : bs[k] = 1
         IN  [i \in 1..Len(bs) |-> IF i < z THEN bs[i] ELSE IF i = z THEN 1 ELSE 0]

\* the first k bits of bs, rounded to nearest with ties to even on the bits
\* dropped (sticky: more non-zero bits follow bs)
RoundHalfEven(bs, k, sticky) ==
    IF Len(bs) <= k THEN bs
    ELSE LET kept == SubSeq(bs, 1, k)
             guard == bs[k + 1]
             rest == sticky \/ \E i \in (k + 2)..Len(bs) : bs[i] = 1
             odd == k > 0 /\ kept[k] = 1
         IN  IF guard = 1 /\ (rest \/ odd) THEN IncBits(kept) ELSE kept

\* a rounded mantissa that carried into one more bit is 10...0: renormalise
Normalise(m, e) ==
    IF Len(m) > MantissaBits
    THEN [m |-> SubSeq(m, 1, MantissaBits), e |-> e + (Len(m) - MantissaBits)]
    ELSE [m |-> m, e |-> e]

\* base-256 digits <-> bits, most significant first
ExpandDigits(ds) ==
    [j \in 1..(8 * Len(ds)) |->
        (ds[(j - 1) \div 8 + 1] \div (2 ^ (7 - ((j - 1) % 8)))) % 2]

PackBits(bs) ==
    LET count == (Len(bs) + 7) \div 8
        pad == 8 * count - Len(bs)
        bit(i) == IF i <= pad THEN 0 ELSE bs[i - pad]
    IN  [d \in 1..count |->
            128 * bit(8 * d - 7) + 64 * bit(8 * d - 6) + 32 * bit(8 * d - 5)
            + 16 * bit(8 * d - 4) + 8 * bit(8 * d - 3) + 4 * bit(8 * d - 2)
            + 2 * bit(8 * d - 1) + bit(8 * d)]

StripZeros(bs) ==
    IF \A i \in 1..Len(bs) : bs[i] = 0 THEN <<>>
    ELSE SubSeq(bs, CHOOSE i \in 1..Len(bs) :
                        bs[i] = 1 /\ \A k \in 1..(i - 1) : bs[k] = 0, Len(bs))

\* long division of the fraction r / b: k base-256 digits and what remains
RECURSIVE FracDigits(_, _, _)
FracDigits(r, b, k) ==
    IF k = 0 THEN [digits |-> <<>>, rem |-> r]
    ELSE LET rest == FracDigits((r * 256) % b, b, k - 1)
         IN  [digits |-> <<(r * 256) \div b>> \o rest.digits, rem |-> rest.rem]

\* a / b for ints a >= b >= 1: true division, correctly rounded
FloatDiv(a, b) ==
    LET whole == Bits(a \div b)
        frac == FracDigits(a % b, b, 7)
        all == whole \o ExpandDigits(frac.digits)
    IN  Normalise(RoundHalfEven(all, MantissaBits, frac.rem /= 0),
                  (Len(all) - MantissaBits) - 8 * Len(frac.digits))

RECURSIVE MulDigits(_, _, _)
MulDigits(ds, n, carry) ==
    IF ds = <<>> THEN [digits |-> <<>>, carry |-> carry]
    ELSE LET t == ds[Len(ds)] * n + carry
             rest == MulDigits(SubSeq(ds, 1, Len(ds) - 1), n, t \div 256)
         IN  [digits |-> Append(rest.digits, t % 256), carry |-> rest.carry]

\* the exact product of the bits bs and a positive int n
MulBits(bs, n) ==
    LET p == MulDigits(PackBits(bs), n, 0)
    IN  StripZeros(Bits(p.carry) \o ExpandDigits(p.digits))

\* x * n for a float x and a positive int n, correctly rounded
FloatMulInt(x, n) ==
    LET p == MulBits(x.m, n)
    IN  Normalise(RoundHalfEven(p, MantissaBits, FALSE),
                  x.e + (Len(p) - MantissaBits))

\* round(x) of a float: to the nearest int, ties to even
PyRound(x) ==
    IF x.e >= 0 THEN BitsToInt(x.m) * (2 ^ x.e)
    ELSE IF MantissaBits + x.e < 0 THEN 0
    ELSE BitsToInt(RoundHalfEven(x.m, MantissaBits + x.e, FALSE))

(***************************************************************************)
(* PIL images.  heap[id] is the image object id; pixels names the decoded  *)
(* content and the resamplings applied to it, so that two images have the  *)
(* same content exactly when their pixels and mode agree.                  *)
(***************************************************************************)
WIDTH == 1      \* _Dimension.WIDTH, index into size (tuples start at 1 here)
HEIGHT == 2     \* _Dimension.HEIGHT

Size(image) == <<image.width, image.height>>

\* Image.copy()
ImageCopy(image) == image

\* Image.resize(new_size, resample=LANCZOS)
ImageResize(image, new_size) ==
    [image EXCEPT !.width = new_size[WIDTH], !.height = new_size[HEIGHT],
                  !.pixels = Append(@, new_size)]

\* Image.convert("RGB")
ImageConvert(image, mode) == [image EXCEPT !.mode = mode]

\* line 53, a wrong test: the larger dimension compared
AlreadyRightSizeLarger(current_base_size, current_larger_size, min_size) ==
    current_larger_size = min_size

\* line 53: the image is already the right size
AlreadyRightSize(current_base_size, current_larger_size, min_size) ==
    current_base_size = min_size

\* line 58, a wrong return: the argument itself
ReturnSameImage(hp, image) ==
    [heap |-> hp, result |-> image, log |-> <<"copy">>]

\* line 58: return image.copy()
ReturnCopy(hp, image) ==
    [heap |-> Append(hp, ImageCopy(hp[image])),
     result |-> Len(hp) + 1,
     log |-> <<"copy">>]

\* lines 60-62, a wrong rounding: int() in place of round()
ResizedLargerSizeTruncated(current_larger_size, current_base_size, min_size) ==
    (current_larger_size * min_size) \div current_base_size

\* lines 60-62: round(current_larger_size / current_base_size * min_size)
ResizedLargerSize(current_larger_size, current_base_size, min_size) ==
    PyRound(FloatMulInt(FloatDiv(current_larger_size, current_base_size),
                        min_size))

\* resize_image(image, min_size): the heap with the image returned added, its
\* identity, and what was logged
resize_image(hp, image, min_size) ==
    LET size == Size(hp[image])
        base_dimension ==
            IF hp[image].width < hp[image].height THEN WIDTH ELSE HEIGHT
        larger_dimension ==
            IF hp[image].width < hp[image].height THEN HEIGHT ELSE WIDTH
        current_base_size == size[base_dimension]
        current_larger_size == size[larger_dimension]
        resized_larger_size ==
            ResizedLargerSize(current_larger_size, current_base_size, min_size)
        new_size ==
            IF base_dimension = WIDTH
            THEN <<min_size, resized_larger_size>>
            ELSE <<resized_larger_size, min_size>>
    IN  IF AlreadyRightSize(current_base_size, current_larger_size, min_size)
        THEN ReturnCopy(hp, image)
        ELSE [heap |-> Append(hp, ImageResize(hp[image], new_size)),
              result |-> Len(hp) + 1,
              log |-> <<"Resizing base image">>]

(***************************************************************************)
(* SpecResize: resize_image(resize_image(image, min_size), min_size).      *)
(* kwargs holds the caller's locals: image, min_size, once, twice.         *)
(***************************************************************************)
NamedSides == {14, 17, 200, 300, 400}
NamedMinSizes == {21, 100, 512}
Sides == (1..MaxDim) \cup NamedSides
MinSizes == (1..MaxMinSize) \cup NamedMinSizes

NoRecord == [k \in {} |-> PyNone]
NoTempDir == [state |-> "absent", holders |-> {}, created |-> 0, removed |-> 0]
At(where) == [at |-> where, i |-> 0]

InitResize ==
    /\ pc = At("call")
    /\ \E w \in Sides, h \in Sides :
          heap = << [width |-> w, height |-> h, mode |-> "RGB", pixels |-> <<>>] >>
    /\ \E n \in MinSizes : kwargs = [image |-> 1, min_size |-> n, once |-> 0, twice |-> 0]
    /\ recipe_config = NoRecord
    /\ variant = "resize_image"
    /\ folders = NoRecord
    /\ record = NoRecord
    /\ exc = NoExc
    /\ tempdir = NoTempDir
    /\ trace = <<>>
    /\ url = <<>>

ResizeOnce ==
    /\ pc.at = "call"
    /\ LET r == resize_image(heap, kwargs.image, kwargs.min_size)
       IN  /\ heap' = r.heap
           /\ kwargs' = [kwargs EXCEPT !.once = r.result]
           /\ trace' = trace \o r.log
    /\ pc' = At("once")
    /\ UNCHANGED <<recipe_config, variant, folders, record, exc, tempdir, url>>

ResizeTwice ==
    /\ pc.at = "once"
    /\ LET r == resize_image(heap, kwargs.once, kwargs.min_size)
       IN  /\ heap' = r.heap
           /\ kwargs' = [kwargs EXCEPT !.twice = r.result]
           /\ trace' = trace \o r.log
    /\ pc' = At("twice")
    /\ UNCHANGED <<recipe_config, variant, folders, record, exc, tempdir, url>>

NextResize == ResizeOnce \/ ResizeTwice

SpecResize == InitResize /\ [][NextResize]_vars


(***************************************************************************)
(* SpecResolve: resolve_model_repo(config).  A str is the sequence of its  *)
(* URL tokens; kwargs holds the local model_repo_path.                     *)
(***************************************************************************)
HUGGING_FACE_BASE_URL == <<"https:", "//", "huggingface.co", "/">>

Schemes == {"https:", "http:"}

\* urllib.parse.urlparse, on tokens: scheme, netloc and path
UrlParse(tokens) ==
    LET hasScheme == tokens /= <<>> /\ Head(tokens) \in Schemes
        afterScheme == IF hasScheme THEN Tail(tokens) ELSE tokens
        hasNetloc == Len(afterScheme) >= 2 /\ Head(afterScheme) = "//"
    IN  [scheme |-> IF hasScheme THEN Head(tokens) ELSE "",
         netloc |-> IF hasNetloc THEN afterScheme[2] ELSE "",
         path |-> IF hasNetloc THEN SubSeq(afterScheme, 3, Len(afterScheme))
                  ELSE afterScheme]

\* urllib.parse.urlunparse
UrlUnparse(scheme, netloc, path) == <<scheme, "//", netloc>> \o path

\* the path up to and with its last "/"
DirName(path) ==
    IF \A i \in 1..Len(path) : path[i] /= "/" THEN <<>>
    ELSE SubSeq(path, 1, CHOOSE i \in 1..Len(path) :
                             path[i] = "/" /\ \A k \in (i + 1)..Len(path) : path[k] /= "/")

\* urllib.parse.urljoin(base, url), for references without dot segments
urljoin(base, ref) ==
    IF ref = <<>> THEN base
    ELSE LET b == UrlParse(base)
             u == UrlParse(ref)
             scheme == IF u.scheme = "" THEN b.scheme ELSE u.scheme
         IN  IF scheme /= b.scheme THEN ref
             ELSE IF u.netloc /= "" THEN UrlUnparse(scheme, u.netloc, u.path)
             ELSE IF u.path = <<>> THEN UrlUnparse(scheme, b.netloc, b.path)
             ELSE IF Head(u.path) = "/" THEN UrlUnparse(scheme, b.netloc, u.path)
             ELSE UrlUnparse(scheme, b.netloc, DirName(b.path) \o u.path)

CUSTOM == PyS(<<"CUSTOM">>)

Selectors ==
    { <<"CUSTOM">>, <<"org", "/", "model">>, <<>>, <<"/", "org", "/", "model">>,
      <<"model">>, <<"https:", "//", "mirror.example", "/", "org", "/", "model">>,
      <<"http:", "//", "mirror.example", "/", "m">>, <<"//", "cdn.example", "/", "m">> }

\* config[key]: the value, or KeyError
Subscript(config, key) ==
    IF config[key] = Missing
    THEN [exc |-> "KeyError", value |-> PyNone]
    ELSE [exc |-> NoExc, value |-> config[key]]

\* config.get(key)
Get(config, key) == IF config[key] = Missing THEN PyNone ELSE config[key]

InitResolve ==
    /\ pc = At("model_repo")
    /\ \E m \in {Missing} \cup {PyS(x) : x \in Selectors},
          c \in {Missing, PyNone} \cup {PyS(x) : x \in Selectors} :
          recipe_config = [model_repo |-> m, custom_model_repo |-> c]
    /\ variant = "resolve_model_repo"
    /\ kwargs = [model_repo_path |-> PyNone]
    /\ folders = NoRecord
    /\ record = NoRecord
    /\ exc = NoExc
    /\ tempdir = NoTempDir
    /\ heap = <<>>
    /\ trace = <<>>
    /\ url = <<>>

\* line 36
ResolveModelRepo ==
    /\ pc.at = "model_repo"
    /\ LET got == Subscript(recipe_config, "model_repo")
       IN  IF got.exc /= NoExc
           THEN /\ exc' = got.exc
                /\ pc' = At("raised")
                /\ UNCHANGED kwargs
           ELSE /\ kwargs' = [kwargs EXCEPT !.model_repo_path = got.value]
                /\ pc' = At("custom")
                /\ UNCHANGED exc
    /\ UNCHANGED <<recipe_config, variant, folders, record, tempdir, heap, trace, url>>

\* line 39, a wrong test: only None counts as undefined
UndefinedIfNone(value) == value = PyNone

\* line 39: not model_repo_path
Undefined(value) == ~Truthy(value)

\* lines 37-40
ResolveCustom ==
    /\ pc.at = "custom"
    /\ IF kwargs.model_repo_path = CUSTOM
       THEN LET custom == Get(recipe_config, "custom_model_repo")
            IN  IF Undefined(custom)
                THEN /\ exc' = "ValueError"
                     /\ pc' = At("raised")
                     /\ kwargs' = [kwargs EXCEPT !.model_repo_path = custom]
                ELSE /\ kwargs' = [kwargs EXCEPT !.model_repo_path = custom]
                     /\ pc' = At("urljoin")
                     /\ UNCHANGED exc
       ELSE /\ pc' = At("urljoin")
            /\ UNCHANGED <<kwargs, exc>>
    /\ UNCHANGED <<recipe_config, variant, folders, record, tempdir, heap, trace, url>>

\* lines 42-43
ResolveJoin ==
    /\ pc.at = "urljoin"
    /\ url' = urljoin(HUGGING_FACE_BASE_URL, kwargs.model_repo_path.s)
    /\ pc' = At("returned")
    /\ UNCHANGED <<recipe_config, variant, folders, kwargs, record, exc, tempdir,
                   heap, trace>>

NextResolve == ResolveModelRepo \/ ResolveCustom \/ ResolveJoin

SpecResolve == InitResolve /\ [][NextResolve]_vars

(***************************************************************************)
(* Spec: TextToImageParams.from_config and                                 *)
(* TextGuidedImageToImageParams.from_config, one position per statement    *)
(* that can raise, then the caller holding the record or the exception.    *)
(*                                                                         *)
(* kwargs is [locals, dict]: the locals of _init_kwargs_from_config and    *)
(* the dict it builds.  tempdir is the TemporaryDirectory object: the      *)
(* directory is removed by its finalizer when nothing holds the object any *)
(* more; holders are "frame" (a local or the dict of the running call),    *)
(* "record" (the instance returned) and "traceback" (the exception that    *)
(* left the call keeps the frames it passed through).                      *)
(***************************************************************************)
BaseImageMinSize == 512

TextToImage == "TextToImageParams"
ImageToImage == "TextGuidedImageToImageParams"

TempDirObject == [t |-> "TemporaryDirectory", n |-> 1, s |-> <<>>]
FolderObject(name) == [t |-> "Folder", n |-> 0, s |-> <<name>>]
ImageObject(id) == [t |-> "Image", n |-> id, s |-> <<>>]
Float16 == [t |-> "dtype", n |-> 16, s |-> <<>>]

\* pathlib.Path(str)
PathOf(v) == [v EXCEPT !.t = "Path"]

Keys ==
    {"device", "use_half_precision", "random_seed", "prompt", "image_count",
     "batch_size", "filename_prefix", "clear_folder", "use_autocast",
     "enable_attention_slicing", "num_inference_steps", "guidance_scale",
     "image_height", "image_width", "base_image_path", "resize_base_image",
     "strength"}

ValidConfig ==
    [device |-> PyS(<<"auto">>), use_half_precision |-> PyB(TRUE),
     random_seed |-> PyI(0), prompt |-> PyS(<<"a cat">>),
     image_count |-> PyI(1), batch_size |-> PyI(1),
     filename_prefix |-> PyS(<<"img-">>), clear_folder |-> PyB(FALSE),
     use_autocast |-> PyB(TRUE), enable_attention_slicing |-> PyB(FALSE),
     num_inference_steps |-> PyI(50), guidance_scale |-> PyF(75),
     image_height |-> PyI(512), image_width |-> PyI(512),
     base_image_path |-> PyS(<<"base.png">>), resize_base_image |-> PyB(TRUE),
     strength |-> PyF(8)]

ConfigValues ==
    {Missing, PyNone, PyB(TRUE), PyB(FALSE)}
    \cup {PyI(i) : i \in (-MaxInt)..MaxInt}
    \cup {PyF(75), PyF(5), PyF(0), PyF(-15)}
    \cup {PyS(<<>>), PyS(<<"0">>), PyS(<<"1", "2">>), PyS(<<"-", "3">>),
          PyS(<<" ", "7", " ">>), PyS(<<"7", ".", "5">>), PyS(<<"a", "b", "c">>),
          PyS(<<"auto">>), PyS(<<"cuda:0">>)}

SecondKeys == {"prompt", "num_inference_steps", "image_width", "strength"}

\* a valid config with one key set to any value and at most one more key
\* missing or not a number
Configs ==
    {[[ValidConfig EXCEPT ![k1] = v1] EXCEPT ![k2] = v2] :
        k1 \in Keys, v1 \in ConfigValues,
        <<k2, v2>> \in {<<k, v>> \in SecondKeys \X {Missing, PyS(<<"a", "b", "c">>), PyNone} :
                            v = PyNone => k = "prompt"}}
    \cup {[ValidConfig EXCEPT ![k1] = v1] : k1 \in Keys, v1 \in ConfigValues}

DecodedImages ==
    {[width |-> 1024, height |-> 768, mode |-> "RGB", pixels |-> <<>>],
     [width |-> 512, height |-> 600, mode |-> "RGBA", pixels |-> <<>>],
     [width |-> 300, height |-> 300, mode |-> "L", pixels |-> <<>>],
     [width |-> 2, height |-> 3, mode |-> "RGB", pixels |-> <<>>]}

DefaultFolders(weights) ==
    [weights |-> weights, base_image |-> "ok",
     decoded |-> [width |-> 1024, height |-> 768, mode |-> "RGB", pixels |-> <<>>]]

WeightsKinds == {"local", "remote", "unreachable"}

Init ==
    /\ pc = At("get_file_path_or_temp")
    /\ \/ /\ variant \in {TextToImage, ImageToImage}
          /\ recipe_config \in Configs
          /\ \E w \in WeightsKinds : folders = DefaultFolders(w)
       \/ /\ variant = ImageToImage
          /\ \E k \in Keys, v \in ConfigValues :
                recipe_config = [ValidConfig EXCEPT ![k] = v]
          /\ \E w \in WeightsKinds, b \in {"ok", "unreachable", "undecodable"},
                d \in DecodedImages :
                folders = [weights |-> w, base_image |-> b, decoded |-> d]
    /\ kwargs = [locals |-> NoRecord, dict |-> NoRecord]
    /\ record = NoRecord
    /\ exc = NoExc
    /\ tempdir = NoTempDir
    /\ heap = <<>>
    /\ trace = <<>>
    /\ url = <<>>

\* the object loses a holder; its finalizer removes the directory with the last
DropHolder(td, who) ==
    LET left == td.holders \ {who}
    IN  IF left = {} /\ td.state = "exists"
        THEN [td EXCEPT !.holders = left, !.state = "removed", !.removed = @ + 1]
        ELSE [td EXCEPT !.holders = left]

\* an exception leaves the call: its traceback keeps the frames and what they hold
Unwind(td) ==
    IF "frame" \in td.holders
    THEN [td EXCEPT !.holders = (@ \ {"frame"}) \cup {"traceback"}]
    ELSE td

Ok(kw) == [exc |-> NoExc, kwargs |-> kw, heap |-> heap, tempdir |-> tempdir, log |-> <<>>]
Err(e) == [exc |-> e, kwargs |-> kwargs, heap |-> heap, tempdir |-> tempdir, log |-> <<>>]

SetLocal(name, v) == [kwargs EXCEPT !.locals = (name :> v) @@ @]
SetItem(name, v) == [kwargs EXCEPT !.dict = (name :> v) @@ @]

\* the statement at pc ran with outcome out: on an exception the call is left
\* at once, otherwise it goes on at next
Advance(step, next, out) ==
    /\ trace' = Append(trace, step) \o out.log
    /\ heap' = out.heap
    /\ IF out.exc /= NoExc
       THEN /\ exc' = out.exc
            /\ pc' = At("raised")
            /\ tempdir' = Unwind(out.tempdir)
            /\ UNCHANGED kwargs
       ELSE /\ pc' = next
            /\ tempdir' = out.tempdir
            /\ kwargs' = out.kwargs
            /\ UNCHANGED exc
    /\ UNCHANGED <<recipe_config, variant, folders, record, url>>

\* get_file_path_or_temp(weights_folder): the path of a folder on the local
\* filesystem, or a TemporaryDirectory holding a copy of its contents
get_file_path_or_temp(weights) ==
    CASE weights = "unreachable" -> Err("StorageError")
      [] weights = "local" ->
            Ok([kwargs EXCEPT !.locals =
                    ("weights_path" :> PyS(<<"/data/weights">>))
                    @@ ("temp_weights_dir" :> PyNone) @@ @])
      [] OTHER ->
            [Ok([kwargs EXCEPT !.locals =
                    ("weights_path" :> PyS(<<"/tmp/tmpdir">>))
                    @@ ("temp_weights_dir" :> TempDirObject) @@ @])
             EXCEPT !.tempdir = [state |-> "exists", holders |-> {"frame"},
                                 created |-> tempdir.created + 1,
                                 removed |-> tempdir.removed]]

\* line 110
GetWeightsPath ==
    /\ pc.at = "get_file_path_or_temp"
    /\ Advance("get_file_path_or_temp", At("device"),
               get_file_path_or_temp(folders.weights))

\* lines 113-116
DeviceId(device) == IF device = PyS(<<"auto">>) THEN PyNone ELSE device

\* lines 112-116
ReadDevice ==
    /\ pc.at = "device"
    /\ LET got == Subscript(recipe_config, "device")
       IN  Advance("device", At("use_half_precision"),
                   IF got.exc /= NoExc THEN Err(got.exc)
                   ELSE Ok(SetLocal("device_id", DeviceId(got.value))))

\* lines 119-123
TorchDtype(use_half_precision) ==
    IF Truthy(use_half_precision) THEN Float16 ELSE PyNone

\* lines 118-123
ReadHalfPrecision ==
    /\ pc.at = "use_half_precision"
    /\ LET got == Subscript(recipe_config, "use_half_precision")
       IN  Advance("use_half_precision", At("random_seed"),
                   IF got.exc /= NoExc THEN Err(got.exc)
                   ELSE Ok(SetLocal("torch_dtype", TorchDtype(got.value))))

\* lines 126-130, a wrong test: only None means no seed
RandomSeedUnlessNone(random_seed) ==
    IF random_seed /= PyNone
    THEN [exc |-> PyInt(random_seed).exc, value |-> PyI(PyInt(random_seed).n)]
    ELSE [exc |-> NoExc, value |-> PyNone]

\* lines 126-130: the seed, or the exception of int()
RandomSeed(random_seed) ==
    IF Truthy(random_seed)
    THEN [exc |-> PyInt(random_seed).exc, value |-> PyI(PyInt(random_seed).n)]
    ELSE [exc |-> NoExc, value |-> PyNone]

\* lines 125-130
ReadRandomSeed ==
    /\ pc.at = "random_seed"
    /\ LET seed == RandomSeed(Get(recipe_config, "random_seed"))
       IN  Advance("random_seed", [at |-> "dict", i |-> 1],
                   IF seed.exc /= NoExc THEN Err(seed.exc)
                   ELSE Ok(SetLocal("random_seed", seed.value)))

\* lines 132-151: the items of the dict display, evaluated in this order
DictItems ==
    << [step |-> "kw_weights_folder", field |-> "weights_folder", how |-> "weights_folder"],
       [step |-> "kw_weights_path", field |-> "weights_path", how |-> "path"],
       [step |-> "kw_temp_weights_dir", field |-> "temp_weights_dir", how |-> "local"],
       [step |-> "kw_image_folder", field |-> "image_folder", how |-> "image_folder"],
       [step |-> "kw_prompt", field |-> "prompt", how |-> "raw"],
       [step |-> "kw_image_count", field |-> "image_count", how |-> "int"],
       [step |-> "kw_batch_size", field |-> "batch_size", how |-> "int"],
       [step |-> "kw_filename_prefix", field |-> "filename_prefix", how |-> "raw"],
       [step |-> "kw_device_id", field |-> "device_id", how |-> "local"],
       [step |-> "kw_clear_folder", field |-> "clear_folder", how |-> "raw"],
       [step |-> "kw_use_autocast", field |-> "use_autocast", how |-> "raw"],
       [step |-> "kw_torch_dtype", field |-> "torch_dtype", how |-> "local"],
       [step |-> "kw_enable_attention_slicing", field |-> "enable_attention_slicing", how |-> "raw"],
       [step |-> "kw_random_seed", field |-> "random_seed", how |-> "local"],
       [step |-> "kw_num_inference_steps", field |-> "num_inference_steps", how |-> "int"],
       [step |-> "kw_guidance_scale", field |-> "guidance_scale", how |-> "raw"] >>

\* lines 170-173
AdditionalItems ==
    << [step |-> "kw_image_height", field |-> "image_height", how |-> "int"],
       [step |-> "kw_image_width", field |-> "image_width", how |-> "int"] >>

\* lines 137-150, a wrong lookup: recipe_config.get(key) in place of [key]
ItemValueDefaulting(item) ==
    CASE item.how = "weights_folder" -> [exc |-> NoExc, value |-> FolderObject("weights")]
      [] item.how = "image_folder" -> [exc |-> NoExc, value |-> FolderObject("images")]
      [] item.how = "local" -> [exc |-> NoExc, value |-> kwargs.locals[item.field]]
      [] item.how = "path" -> [exc |-> NoExc, value |-> PathOf(kwargs.locals[item.field])]
      [] item.how = "raw" -> [exc |-> NoExc, value |-> Get(recipe_config, item.field)]
      [] item.how = "int" ->
            LET got == Get(recipe_config, item.field)
            IN  [exc |-> PyInt(got).exc, value |-> PyI(PyInt(got).n)]

\* the value of one item of a dict display, or the exception raised for it
ItemValue(item) ==
    CASE item.how = "weights_folder" -> [exc |-> NoExc, value |-> FolderObject("weights")]
      [] item.how = "image_folder" -> [exc |-> NoExc, value |-> FolderObject("images")]
      [] item.how = "local" -> [exc |-> NoExc, value |-> kwargs.locals[item.field]]
      [] item.how = "path" -> [exc |-> NoExc, value |-> PathOf(kwargs.locals[item.field])]
      [] item.how = "raw" -> Subscript(recipe_config, item.field)
      [] item.how = "int" ->
            LET got == Subscript(recipe_config, item.field)
            IN  IF got.exc /= NoExc THEN got
                ELSE [exc |-> PyInt(got.value).exc, value |-> PyI(PyInt(got.value).n)]

AfterShared ==
    IF variant = TextToImage THEN [at |-> "additional", i |-> 1]
    ELSE At("base_image_path")

\* lines 132-151, one item at a time
BuildSharedItem ==
    /\ pc.at = "dict"
    /\ LET item == DictItems[pc.i]
           v == ItemValue(item)
       IN  Advance(item.step,
                   IF pc.i < Len(DictItems) THEN [pc EXCEPT !.i = @ + 1] ELSE AfterShared,
                   IF v.exc /= NoExc THEN Err(v.exc)
                   ELSE Ok(SetItem(item.field, v.value)))

\* lines 170-174, TextToImageParams
BuildAdditionalItem ==
    /\ pc.at = "additional"
    /\ LET item == AdditionalItems[pc.i]
           v == ItemValue(item)
       IN  Advance(item.step,
                   IF pc.i < Len(AdditionalItems) THEN [pc EXCEPT !.i = @ + 1]
                   ELSE At("construct"),
                   IF v.exc /= NoExc THEN Err(v.exc)
                   ELSE Ok(SetItem(item.field, v.value)))

\* line 221, TextGuidedImageToImageParams
ReadBaseImagePath ==
    /\ pc.at = "base_image_path"
    /\ LET got == Subscript(recipe_config, "base_image_path")
       IN  Advance("base_image_path", At("open_base_image"),
                   IF got.exc /= NoExc THEN Err(got.exc)
                   ELSE Ok(SetLocal("base_image_path", got.value)))

\* image.py lines 14-27: open_base_image(folder, image_path)
open_base_image(hp, folder) ==
    CASE folder.base_image = "unreachable" ->
            [exc |-> "StorageError", heap |-> hp, result |-> 0]
      [] folder.base_image = "undecodable" ->
            [exc |-> "UnidentifiedImageError", heap |-> hp, result |-> 0]
      [] OTHER ->
            LET opened == Append(hp, folder.decoded)
            IN  IF folder.decoded.mode /= "RGB"
                THEN [exc |-> NoExc,
                      heap |-> Append(opened, ImageConvert(folder.decoded, "RGB")),
                      result |-> Len(opened) + 1]
                ELSE [exc |-> NoExc, heap |-> opened, result |-> Len(opened)]

\* line 223
OpenBaseImage ==
    /\ pc.at = "open_base_image"
    /\ LET opened == open_base_image(heap, folders)
       IN  Advance("open_base_image", At("resize_base_image"),
                   IF opened.exc /= NoExc THEN Err(opened.exc)
                   ELSE [Ok(SetLocal("base_image", ImageObject(opened.result)))
                         EXCEPT !.heap = opened.heap])

\* line 229, a wrong target size
ResizeTargetHalved == BaseImageMinSize \div 2

\* line 229: min_size=512
ResizeTarget == BaseImageMinSize

\* lines 228-229
ResizeBaseImage ==
    /\ pc.at = "resize_base_image"
    /\ LET got == Subscript(recipe_config, "resize_base_image")
           resized == resize_image(heap, kwargs.locals["base_image"].n, ResizeTarget)
       IN  Advance("resize_base_image", At("strength"),
                   IF got.exc /= NoExc THEN Err(got.exc)
                   ELSE IF Truthy(got.value)
                   THEN [Ok(SetLocal("base_image", ImageObject(resized.result)))
                         EXCEPT !.heap = resized.heap, !.log = resized.log]
                   ELSE Ok(kwargs))

\* lines 231-235
ReadStrength ==
    /\ pc.at = "strength"
    /\ LET got == Subscript(recipe_config, "strength")
       IN  Advance("strength", At("construct"),
                   IF got.exc /= NoExc THEN Err(got.exc)
                   ELSE Ok([kwargs EXCEPT !.dict =
                               ("base_image" :> kwargs.locals["base_image"])
                               @@ ("strength" :> got.value) @@ @]))

\* lines 87 and 204, a wrong record: the TemporaryDirectory is not kept in it
ConstructWithoutTempDir ==
    /\ pc.at = "construct"
    /\ record' = [kwargs.dict EXCEPT !["temp_weights_dir"] = PyNone]
    /\ pc' = At("returned")
    /\ trace' = Append(trace, "construct")
    /\ tempdir' = DropHolder(tempdir, "frame")
    /\ UNCHANGED <<recipe_config, variant, folders, kwargs, exc, heap, url>>

\* lines 87 and 204: cls(**kwargs); the frames of the call are gone, the
\* instance holds what its fields hold
Construct ==
    /\ pc.at = "construct"
    /\ record' = kwargs.dict
    /\ pc' = At("returned")
    /\ trace' = Append(trace, "construct")
    /\ tempdir' =
          IF kwargs.dict["temp_weights_dir"] = TempDirObject
          THEN DropHolder([tempdir EXCEPT !.holders = @ \cup {"record"}], "frame")
          ELSE DropHolder(tempdir, "frame")
    /\ UNCHANGED <<recipe_config, variant, folders, kwargs, exc, heap, url>>

\* the caller reads the record (the pipeline loads the weights from weights_path)
UseRecord ==
    /\ pc.at = "returned"
    /\ pc.i < MaxUses
    /\ pc' = [pc EXCEPT !.i = @ + 1]
    /\ UNCHANGED <<recipe_config, variant, folders, kwargs, record, exc, tempdir,
                   heap, trace, url>>

\* the caller lets go of the record
DiscardRecord ==
    /\ pc.at = "returned"
    /\ pc' = [pc EXCEPT !.at = "discarded"]
    /\ record' = NoRecord
    /\ tempdir' = DropHolder(tempdir, "record")
    /\ UNCHANGED <<recipe_config, variant, folders, kwargs, exc, heap, trace, url>>

\* the caller lets go of the exception and its traceback
DropException ==
    /\ pc.at = "raised"
    /\ pc' = At("handled")
    /\ tempdir' = DropHolder(tempdir, "traceback")
    /\ UNCHANGED <<recipe_config, variant, folders, kwargs, record, exc, heap,
                   trace, url>>

Next ==
    \/ GetWeightsPath
    \/ ReadDevice
    \/ ReadHalfPrecision
    \/ ReadRandomSeed
    \/ BuildSharedItem
    \/ BuildAdditionalItem
    \/ ReadBaseImagePath
    \/ OpenBaseImage
    \/ ResizeBaseImage
    \/ ReadStrength
    \/ Construct
    \/ UseRecord
    \/ DiscardRecord
    \/ DropException

Spec == Init /\ [][Next]_vars

(***************************************************************************)
(* Properties of resize_image, checked under SpecResize.                   *)
(***************************************************************************)
Arg == heap[kwargs.image]
Once == heap[kwargs.once]
Twice == heap[kwargs.twice]
Shorter(image) == IF image.width < image.height THEN image.width ELSE image.height
Longer(image) == IF image.width < image.height THEN image.height ELSE image.width
Abs(x) == IF x < 0 THEN -x ELSE x

\* num / den rounded to the nearest integer, an exact tie to the even one
ExactHalfEven(num, den) ==
    LET q == num \div den
        r == num % den
    IN  IF 2 * r < den THEN q
        ELSE IF 2 * r > den THEN q + 1
        ELSE IF q % 2 = 0 THEN q ELSE q + 1

\* C4: resize is idempotent.  After resize(resize(img, N), N) the second
\* result has the dimensions and the content of the first, the shorter
\* dimension of the first result is exactly N, and the second call took the
\* copy branch.
C4_ResizeIdempotent ==
    pc.at = "twice" =>
        /\ Size(Twice) = Size(Once)
        /\ Twice.pixels = Once.pixels
        /\ Twice.mode = Once.mode
        /\ Shorter(Once) = kwargs.min_size
        /\ trace[2] = "copy"

\* a first call that resized a portrait image into a square one, so that the
\* second call finds its base dimension on the other axis
C4_Witness ==
    /\ pc.at = "twice"
    /\ trace[1] = "Resizing base image"
    /\ Arg.width < Arg.height
    /\ Once.width = Once.height

\* C5 as stated: when the shorter dimension differs from min_size the result
\* is (min_size, new_larger) if width was strictly shorter, (new_larger,
\* min_size) otherwise, with new_larger the exact quotient
\* larger * min_size / base rounded half to even.
C5_ExactHalfToEven ==
    (pc.at \in {"once", "twice"} /\ Shorter(Arg) /= kwargs.min_size) =>
        LET new_larger ==
                ExactHalfEven(Longer(Arg) * kwargs.min_size, Shorter(Arg))
        IN  Size(Once) = IF Arg.width < Arg.height
                         THEN <<kwargs.min_size, new_larger>>
                         ELSE <<new_larger, kwargs.min_size>>

\* C5 amended: the shorter side becomes min_size on the axis that was
\* shorter (height when the sides are equal), the other side is an integer
\* nearest to larger * min_size / base, and equals the half-to-even rounding
\* whenever the exact quotient is no tie; 300x300 at 100 gives 100x100 and
\* 400x200 at 100 gives 200x100.
C5_NearestInteger ==
    (pc.at \in {"once", "twice"} /\ Shorter(Arg) /= kwargs.min_size) =>
        LET base == Shorter(Arg)
            exact == Longer(Arg) * kwargs.min_size
            new_larger == IF Arg.width < Arg.height THEN Once.height ELSE Once.width
        IN  /\ IF Arg.width < Arg.height
               THEN Once.width = kwargs.min_size
               ELSE Once.height = kwargs.min_size
            /\ 2 * Abs(new_larger * base - exact) <= base
            /\ 2 * (exact % base) /= base => new_larger = ExactHalfEven(exact, base)
            /\ (Size(Arg) = <<300, 300>> /\ kwargs.min_size = 100)
                  => Size(Once) = <<100, 100>>
            /\ (Size(Arg) = <<400, 200>> /\ kwargs.min_size = 100)
                  => Size(Once) = <<200, 100>>

\* 17x14 at min_size 21: the exact quotient is the tie 25.5, and the result
\* is 25x21
C5_Witness ==
    /\ pc.at = "once"
    /\ Size(Arg) = <<17, 14>>
    /\ kwargs.min_size = 21
    /\ Size(Once) = <<25, 21>>

\* C6: when the shorter dimension already equals min_size, resize returns a
\* new image object, distinct from its argument, with the argument's
\* dimensions and content, and the argument is unchanged.
C6_NoOpReturnsDistinctCopy ==
    [][(pc.at = "call" /\ Shorter(Arg) = kwargs.min_size) =>
          /\ kwargs'.once /= kwargs.image
          /\ heap'[kwargs'.once] = heap[kwargs.image]
          /\ heap'[kwargs.image] = heap[kwargs.image]]_vars

\* a non-square image whose shorter side is min_size, after the call
C6_Witness ==
    /\ pc.at = "once"
    /\ Shorter(Arg) = kwargs.min_size
    /\ Arg.width /= Arg.height
    /\ trace = <<"copy">>


(***************************************************************************)
(* Properties of resolve_model_repo, checked under SpecResolve.            *)
(***************************************************************************)
OrgModelUrl == <<"https:", "//", "huggingface.co", "/", "org", "/", "model">>

\* C7: resolve returns the base URL joined with custom_model_repo when
\* model_repo is "CUSTOM" and with model_repo itself otherwise (both give
\* .../org/model for "org/model"); with "CUSTOM" and custom_model_repo absent
\* or empty it raises the missing-parameter error (ValueError "undefined
\* parameter: Custom model repo") and returns no URL.
C7_ResolveModelRepo ==
    (pc.at \in {"returned", "raised"} /\ recipe_config.model_repo /= Missing) =>
        LET model_repo == recipe_config.model_repo
            custom == recipe_config.custom_model_repo
            effective == IF model_repo = CUSTOM THEN custom ELSE model_repo
        IN  IF model_repo = CUSTOM /\ custom \in {Missing, PyNone, PyS(<<>>)}
            THEN pc.at = "raised" /\ exc = "ValueError" /\ url = <<>>
            ELSE /\ pc.at = "returned"
                 /\ exc = NoExc
                 /\ url = urljoin(HUGGING_FACE_BASE_URL, effective.s)
                 /\ effective = PyS(<<"org", "/", "model">>) => url = OrgModelUrl

\* "CUSTOM" with custom_model_repo "org/model" resolved to .../org/model
C7_Witness ==
    /\ pc.at = "returned"
    /\ recipe_config.model_repo = CUSTOM
    /\ recipe_config.custom_model_repo = PyS(<<"org", "/", "model">>)
    /\ url = OrgModelUrl


(***************************************************************************)
(* Properties of from_config, checked under Spec.                          *)
(***************************************************************************)
LogEntries == {"copy", "Resizing base image"}
NotLogEntry(x) == x \notin LogEntries
Steps(tr) == SelectSeq(tr, NotLogEntry)

\* the statements of a build, in program order
ExpectedSteps ==
    <<"get_file_path_or_temp", "device", "use_half_precision", "random_seed",
      "kw_weights_folder", "kw_weights_path", "kw_temp_weights_dir",
      "kw_image_folder", "kw_prompt", "kw_image_count", "kw_batch_size",
      "kw_filename_prefix", "kw_device_id", "kw_clear_folder", "kw_use_autocast",
      "kw_torch_dtype", "kw_enable_attention_slicing", "kw_random_seed",
      "kw_num_inference_steps", "kw_guidance_scale">>
    \o (IF variant = TextToImage
        THEN <<"kw_image_height", "kw_image_width">>
        ELSE <<"base_image_path", "open_base_image", "resize_base_image", "strength">>)
    \o <<"construct">>

\* the required key a statement reads
StepKey ==
    [device |-> "device", use_half_precision |-> "use_half_precision",
     kw_prompt |-> "prompt", kw_image_count |-> "image_count",
     kw_batch_size |-> "batch_size", kw_filename_prefix |-> "filename_prefix",
     kw_clear_folder |-> "clear_folder", kw_use_autocast |-> "use_autocast",
     kw_enable_attention_slicing |-> "enable_attention_slicing",
     kw_num_inference_steps |-> "num_inference_steps",
     kw_guidance_scale |-> "guidance_scale", kw_image_height |-> "image_height",
     kw_image_width |-> "image_width", base_image_path |-> "base_image_path",
     resize_base_image |-> "resize_base_image", strength |-> "strength"]

IntSteps ==
    {"kw_image_count", "kw_batch_size", "kw_num_inference_steps",
     "kw_image_height", "kw_image_width"}

IntCoercible(v) ==
    \/ v.t \in {"int", "bool", "float"}
    \/ v.t = "str" /\ ParseInt(v.s).exc = NoExc

Falsy(v) == v \in {Missing, PyNone, PyI(0), PyF(0), PyB(FALSE), PyS(<<>>)}

\* what makes a statement fail: a required key missing, a value int() rejects,
\* a collaborator that fails
StepFails(step) ==
    CASE step = "get_file_path_or_temp" -> folders.weights = "unreachable"
      [] step = "open_base_image" -> folders.base_image /= "ok"
      [] step = "random_seed" ->
            ~Falsy(recipe_config.random_seed) /\ ~IntCoercible(recipe_config.random_seed)
      [] step \in DOMAIN StepKey ->
            \/ recipe_config[StepKey[step]] = Missing
            \/ step \in IntSteps /\ ~IntCoercible(recipe_config[StepKey[step]])
      [] OTHER -> FALSE

FailingSteps == {i \in 1..Len(ExpectedSteps) : StepFails(ExpectedSteps[i])}

Fields ==
    {"weights_folder", "weights_path", "temp_weights_dir", "image_folder",
     "prompt", "image_count", "batch_size", "filename_prefix", "device_id",
     "clear_folder", "use_autocast", "torch_dtype", "enable_attention_slicing",
     "random_seed", "num_inference_steps", "guidance_scale"}
    \cup (IF variant = TextToImage THEN {"image_height", "image_width"}
          ELSE {"base_image", "strength"})

\* C1: a build that fails after the weights were copied into a temporary
\* directory raises (KeyError when prompt is missing) and, once it has failed,
\* the temporary directory has been released.
C1_FailedBuildLeavesNoTempDir ==
    (pc.at = "raised" /\ tempdir.created > 0) =>
        /\ tempdir.state = "removed"
        /\ recipe_config.prompt = Missing /\ trace[Len(trace)] = "kw_prompt"
              => exc = "KeyError"

\* C2: the temporary weights directory is created at most once, exists for
\* as long as the record is in use, and is removed exactly once when the
\* record is discarded; a record whose weights folder is on the local
\* filesystem holds no temporary directory.
C2_TempDirLifetime ==
    /\ tempdir.created <= 1
    /\ tempdir.removed <= tempdir.created
    /\ pc.at = "returned" =>
          IF folders.weights = "local"
          THEN /\ record["temp_weights_dir"] = PyNone
               /\ tempdir.created = 0
          ELSE /\ record["temp_weights_dir"] = TempDirObject
               /\ tempdir.created = 1
               /\ tempdir.state = "exists"
               /\ tempdir.removed = 0
    /\ pc.at = "discarded" =>
          /\ tempdir.state /= "exists"
          /\ tempdir.removed = tempdir.created

\* a record backed by a temporary directory, used and then discarded
C2_Witness ==
    /\ pc.at = "discarded"
    /\ pc.i = MaxUses
    /\ folders.weights = "remote"
    /\ tempdir.created = 1
    /\ tempdir.removed = 1

\* C3: every record returned has its numeric fields coerced and in range:
\* image_count, batch_size and num_inference_steps ints with
\* num_inference_steps positive, guidance_scale a float, image_height and
\* image_width positive ints, strength a float in [0, 1]; any other config
\* makes the build fail.
C3_NumericFieldsValidated ==
    pc.at = "returned" =>
        /\ record["image_count"].t = "int"
        /\ record["batch_size"].t = "int"
        /\ record["num_inference_steps"].t = "int"
        /\ record["num_inference_steps"].n > 0
        /\ record["guidance_scale"].t = "float"
        /\ variant = TextToImage =>
              /\ record["image_height"].t = "int" /\ record["image_height"].n > 0
              /\ record["image_width"].t = "int" /\ record["image_width"].n > 0
        /\ variant = ImageToImage =>
              /\ record["strength"].t = "float"
              /\ record["strength"].n >= 0 /\ record["strength"].n <= 10

\* int() of a truthy value: an int as it is, True as 1, a float cut towards
\* zero, a str as the number it spells
ExpectedInt(v) ==
    CASE v.t = "int" -> v.n
      [] v.t = "bool" -> 1
      [] v.t = "float" -> IF v.n >= 0 THEN v.n \div 10 ELSE -((-v.n) \div 10)
      [] OTHER -> ParseInt(v.s).n

\* C8: in the record of a config whose device is a string, device_id is None
\* exactly when device is "auto" and the device string otherwise; random_seed
\* is None exactly when the configured seed is falsy or missing, and the
\* value as an int otherwise.
C8_DeviceAndSeed ==
    (pc.at = "returned" /\ recipe_config.device.t = "str") =>
        /\ record["device_id"] = PyNone <=> recipe_config.device = PyS(<<"auto">>)
        /\ recipe_config.device /= PyS(<<"auto">>)
              => record["device_id"] = recipe_config.device
        /\ record["random_seed"] = PyNone <=> Falsy(recipe_config.random_seed)
        /\ ~Falsy(recipe_config.random_seed)
              => record["random_seed"] = PyI(ExpectedInt(recipe_config.random_seed))

\* the seed "12" became 12 on the automatic device
C8_Witness ==
    /\ pc.at = "returned"
    /\ recipe_config.random_seed = PyS(<<"1", "2">>)
    /\ record["random_seed"] = PyI(12)
    /\ recipe_config.device = PyS(<<"auto">>)
    /\ record["device_id"] = PyNone

\* C9: a build is all-or-nothing and single-shot.  The statements run in
\* program order, each at most once; the first one that fails (missing key,
\* failed coercion, failing collaborator) ends the build with an exception and
\* nothing after it runs; a record, with all its fields, is returned only
\* when every statement succeeded, and never together with an exception.
C9_AllOrNothing ==
    LET steps == Steps(trace)
    IN  /\ Len(steps) <= Len(ExpectedSteps)
        /\ steps = SubSeq(ExpectedSteps, 1, Len(steps))
        /\ \A i \in FailingSteps : Len(steps) <= i
        /\ exc /= NoExc <=> pc.at \in {"raised", "handled"}
        /\ exc /= NoExc =>
              /\ record = NoRecord
              /\ Len(steps) \in FailingSteps
        /\ pc.at \in {"returned", "discarded"} =>
              /\ FailingSteps = {}
              /\ steps = ExpectedSteps
        /\ record /= NoRecord =>
              /\ pc.at = "returned"
              /\ exc = NoExc
              /\ DOMAIN record = Fields

\* two keys are bad; the build stopped at the first and the caller got no record
C9_Witness ==
    /\ pc.at = "raised"
    /\ Cardinality(FailingSteps) = 2
    /\ trace[Len(trace)] = "kw_prompt"
    /\ exc = "KeyError"
    /\ record = NoRecord

\* C10: the image-to-image build opens the base image only after the shared
\* construction succeeded, the opened image is RGB, and resize to 512 is
\* applied exactly when resize_base_image is truthy: then the shorter side of
\* the record's base image is 512, otherwise the image has the decoded size.
C10_BaseImage ==
    variant = ImageToImage =>
        /\ heap /= <<>> =>
              /\ Len(trace) >= 22
              /\ SubSeq(trace, 1, 20) = SubSeq(ExpectedSteps, 1, 20)
        /\ pc.at = "returned" =>
              LET image == heap[record["base_image"].n]
                  logged == {i \in 1..Len(trace) : trace[i] \in LogEntries}
              IN  /\ image.mode = "RGB"
                  /\ IF ~Falsy(recipe_config.resize_base_image)
                     THEN /\ Shorter(image) = 512
                          /\ Cardinality(logged) = 1
                     ELSE /\ Size(image) = Size(folders.decoded)
                          /\ image.pixels = <<>>
                          /\ logged = {}

\* a 1024x768 base image came out 683x512
C10_Witness ==
    /\ pc.at = "returned"
    /\ variant = ImageToImage
    /\ Size(folders.decoded) = <<1024, 768>>
    /\ Size(heap[record["base_image"].n]) = <<683, 512>>

=============================================================================
